---- MODULE Spec2Model ----
(***************************************************************************)
(* Model of mogas-plane-gas-finder.                                        *)
(*                                                                         *)
(*   fetch/fetch.go      the NASR download -> validate -> extract ->       *)
(*                       parse -> emit batch job                           *)
(*   public/js/main.js   the browser UI: filtering, distance sorting,      *)
(*                       incremental pagination, load-more                 *)
(*                                                                         *)
(* Strings the code inspects (FUEL_TYPES, ARPT_ID, column names, archive   *)
(* member names) are sequences of one-character strings.  time.Time values *)
(* are whole hours relative to anchorDate.                                 *)
(***************************************************************************)
EXTENDS Integers, Sequences, FiniteSets, TLC

VARIABLES
    \* ---- fetch/fetch.go ----
    pc,            \* position of main / runPipeline
    now,           \* time.Now().UTC(), hours since anchorDate
    nextCycle,     \* main's nextCycle, hours since anchorDate
    attempts,      \* log of the calls of download: <<[url, err, valid]>>,
                   \* valid being what isZipValid then said of the file
    zipFile,       \* the file "cycle.zip": <<>> (absent) or <<body>>
    csvFile,       \* the file "APT_BASE.csv": <<>> (absent) or <<data>>
    parsed,        \* what parseAirports returned to runPipeline
    jsonFile,      \* the file "public/airports.json": <<>> or <<airports>>
    \* ---- one call of a function of fetch.go, taken alone ----
    arg,           \* the argument of the call
    ret,           \* <<>> before the call, <<result>> after it
    \* ---- public/js/main.js ----
    loaded,        \* init() is past its await: airports is set, initUI has run
    geoPending,    \* getCurrentPosition has not called back yet
    airports,      \* the array fetched from airports.json
    filtered,      \* the filtered array, each entry with its dist
    markers,       \* the markers on the map
    center,
    radiusMiles,
    radiusCircle,  \* <<>> (null) or <<circle>>
    centerMarker,  \* <<>> (null) or <<marker>>
    listPage,
    searchMode,
    isLoadingMore,
    loadMoreObserver, \* "null", or created and "observing" / "unobserved"
    activeFuels,   \* the fuel buttons whose class list has "active"
    showCircle,    \* the checkbox #showCircle
    list,          \* the children of #list
    btnDisabled,   \* #loadMoreBtn has the attribute disabled
    mapBounds,     \* map.getBounds()
    rafQueue,      \* animation-frame callbacks requested and not yet run
    \* ---- history of the UI, read by the properties only ----
    rendered,      \* render() has run
    lastEvent,     \* the kind of the last handler that touched the list:
                   \* "filterChange" (fuel toggle, slider, mode button, map
                   \* click), "render" (any other handler that called
                   \* render), "trigger" (load-more click, observer),
                   \* "frame", or "none"
    sinceAccept    \* what happened since attemptLoadMore last scheduled a frame

fetchVars == <<pc, now, nextCycle, attempts, zipFile, csvFile, parsed, jsonFile>>
callVars == <<arg, ret>>
uiVars ==
    <<loaded, geoPending, airports, filtered, markers, center, radiusMiles,
      radiusCircle, centerMarker, listPage, searchMode, isLoadingMore,
      loadMoreObserver, activeFuels, showCircle, list, btnDisabled, mapBounds,
      rafQueue, rendered, lastEvent, sinceAccept>>
vars == <<fetchVars, callVars, uiVars>>

\* ------------------------------------------------------------------------
\* Bounds of the model
\* ------------------------------------------------------------------------

\* computeNextCycle is checked for every whole hour within this many cycles
\* before and after the anchor.
MaxCycles == 3

\* FUEL_TYPES strings are concatenations of at most this many fragments.
MaxPieces == 3

\* CSV tables hold at most this many rows after the header.
MaxRows == 2

\* ------------------------------------------------------------------------
\* Runes and strings (Go's strings package on the ASCII range)
\* ------------------------------------------------------------------------

LowerLetters ==
    <<"a","b","c","d","e","f","g","h","i","j","k","l","m",
      "n","o","p","q","r","s","t","u","v","w","x","y","z">>

UpperLetters ==
    <<"A","B","C","D","E","F","G","H","I","J","K","L","M",
      "N","O","P","Q","R","S","T","U","V","W","X","Y","Z">>

\* unicode.ToUpper on one rune
ToUpperRune(c) ==
    IF \E i \in 1..26 : LowerLetters[i] = c
    THEN UpperLetters[CHOOSE i \in 1..26 : LowerLetters[i] = c]
    ELSE c

\* strings.ToUpper
ToUpper(s) == [i \in 1..Len(s) |-> ToUpperRune(s[i])]

\* strings.Contains
Contains(s, sub) ==
    \E i \in 0..(Len(s) - Len(sub)) : SubSeq(s, i + 1, i + Len(sub)) = sub

\* strings.EqualFold
EqualFold(s, t) == ToUpper(s) = ToUpper(t)

\* unicode.IsSpace, on the runes the model uses
IsSpace(c) == c \in {" ", "\t"}

RECURSIVE TrimLeft(_)
TrimLeft(s) ==
    IF s # <<>> /\ IsSpace(Head(s)) THEN TrimLeft(Tail(s)) ELSE s

RECURSIVE TrimRight(_)
TrimRight(s) ==
    IF s # <<>> /\ IsSpace(s[Len(s)])
    THEN TrimRight(SubSeq(s, 1, Len(s) - 1))
    ELSE s

\* strings.TrimSpace
TrimSpace(s) == TrimRight(TrimLeft(s))

\* ------------------------------------------------------------------------
\* Cycle calculation
\* ------------------------------------------------------------------------

cycleLengthDays == 28

HoursPerDay == 24

\* anchorDate, 25 Dec 2025 00:00 UTC, as days since 1 Jan 1970
AnchorEpochDay == 20447

\* Go's int(x) on a float64 truncates toward zero; num/den is the float.
TruncDiv(num, den) ==
    IF num >= 0 THEN num \div den ELSE -((-num) \div den)

\* computeNextCycle with time.Now() = anchorDate + t hours; the result is in
\* hours since anchorDate.  daysSinceAnchor/28 = t/(24*28).
computeNextCycle(t) ==
    LET n == TruncDiv(t, HoursPerDay * cycleLengthDays) + 1
    IN  n * cycleLengthDays * HoursPerDay

MonthNames ==
    <<"Jan","Feb","Mar","Apr","May","Jun","Jul","Aug","Sep","Oct","Nov","Dec">>

\* time.Time's Year(), Month(), Day() for a day number since 1 Jan 1970
\* (proleptic Gregorian calendar).
CivilFromDays(days) ==
    LET z   == days + 719468
        era == z \div 146097
        doe == z - era * 146097
        yoe == (doe - doe \div 1460 + doe \div 36524 - doe \div 146096) \div 365
        doy == doe - (365 * yoe + yoe \div 4 - yoe \div 100)
        mp  == (5 * doy + 2) \div 153
        d   == doy - (153 * mp + 2) \div 5 + 1
        m   == IF mp < 10 THEN mp + 3 ELSE mp - 9
        y   == yoe + era * 400 + (IF m <= 2 THEN 1 ELSE 0)
    IN  [year |-> y, month |-> m, day |-> d]

\* formatZipURL: the file name DD_Mon_YYYY_APT_CSV.zip under the fixed
\* prefix, kept as its three varying parts.
formatZipURL(t) ==
    LET c == CivilFromDays(AnchorEpochDay + t \div HoursPerDay)
    IN  [day |-> c.day, mon |-> MonthNames[c.month], year |-> c.year]

\* ------------------------------------------------------------------------
\* CSV parser
\* ------------------------------------------------------------------------

S_MOGAS == <<"M","O","G","A","S">>
S_100 == <<"1","0","0">>
S_100LL == <<"1","0","0","L","L">>
S_JET == <<"J","E","T">>

FuelKeys == {"mogas", "100ll", "jet_a"}

\* The mutant: matches without upper-casing first.
parseFuel_caseSensitive(s) ==
    [k \in FuelKeys |->
        CASE k = "mogas" -> Contains(s, S_MOGAS)
          [] k = "100ll" -> Contains(s, S_100)
          [] k = "jet_a" -> Contains(s, S_JET)]

\* parseFuel: map[string]bool with the keys mogas, 100ll, jet_a
parseFuel(s) ==
    LET x == ToUpper(s)
    IN  [k \in FuelKeys |->
            CASE k = "mogas" -> Contains(x, S_MOGAS)
              [] k = "100ll" -> Contains(x, S_100)
              [] k = "jet_a" -> Contains(x, S_JET)]

\* float64 values: a finite number in tenths, or an infinity.
Finite(x) == [inf |-> 0, x |-> x]
PosInf == [inf |-> 1, x |-> 0]

F_39_5 == <<"3","9",".","5">>
F_m98_3 == <<"-","9","8",".","3">>
F_0 == <<"0">>
F_1e999 == <<"1","e","9","9","9">>
F_sp39_5 == <<" ","3","9",".","5">>
F_NA == <<"N","/","A">>

\* strconv.ParseFloat(s, 64) on the numerals the model uses: a numeral in
\* range gives its value; one whose magnitude overflows float64 gives
\* +Inf with ErrRange; anything else gives 0 with ErrSyntax (surrounding
\* blanks are not accepted).
ParseFloat(s) ==
    CASE s = F_39_5  -> [val |-> Finite(395), err |-> "nil"]
      [] s = F_m98_3 -> [val |-> Finite(-983), err |-> "nil"]
      [] s = F_0     -> [val |-> Finite(0), err |-> "nil"]
      [] s = F_1e999 -> [val |-> PosInf, err |-> "ErrRange"]
      [] OTHER       -> [val |-> Finite(0), err |-> "ErrSyntax"]

H_ARPT_ID == <<"A","R","P","T","_","I","D">>
H_LAT_DECIMAL == <<"L","A","T","_","D","E","C","I","M","A","L">>
H_LONG_DECIMAL == <<"L","O","N","G","_","D","E","C","I","M","A","L">>
H_ARPT_NAME == <<"A","R","P","T","_","N","A","M","E">>
H_CITY == <<"C","I","T","Y">>
H_STATE_CODE == <<"S","T","A","T","E","_","C","O","D","E">>
H_FUEL_TYPES == <<"F","U","E","L","_","T","Y","P","E","S">>

\* col: the 0-based index of the first header cell equal to name, else -1
col(header, name) ==
    IF \E i \in 1..Len(header) : header[i] = name
    THEN (CHOOSE i \in 1..Len(header) :
             /\ header[i] = name
             /\ \A j \in 1..(i - 1) : header[j] # name) - 1
    ELSE -1

\* Whether row[i] (0-based) is inside the slice; outside, Go panics.
InRange(row, i) == 0 <= i /\ i < Len(row)

\* row[i], 0-based
At(row, i) == row[i + 1]

S_K == <<"K">>

\* The body of parseAirports' loop for one row whose seven cells exist.
MakeAirport(row, iID, iLat, iLon, iName, iCity, iState, iFuel) ==
    LET id == TrimSpace(At(row, iID))
    IN  [arpt_id |-> id,
         name    |-> At(row, iName),
         city    |-> At(row, iCity),
         state   |-> At(row, iState),
         icao    |-> S_K \o id,
         lat     |-> ParseFloat(At(row, iLat)).val,
         lon     |-> ParseFloat(At(row, iLon)).val,
         fuel    |-> parseFuel(At(row, iFuel))]

\* parseAirports on the file at path: file is <<>> when os.Open fails, else
\* <<[readErr, rows]>> where rows is what csv.Reader.ReadAll returns with
\* FieldsPerRecord = -1 (rows of any length) and readErr says it failed.
\* The result is [status, airports]: "ok" with the records, "err" for a
\* returned error, "panic" for an index out of range.
parseAirports(file) ==
    IF file = <<>> \/ file[1].readErr
    THEN [status |-> "err", airports |-> <<>>]
    ELSE
    LET rows == file[1].rows IN
    IF rows = <<>>
    THEN [status |-> "panic", airports |-> <<>>]
    ELSE
    LET header == rows[1]
        iID    == col(header, H_ARPT_ID)
        iLat   == col(header, H_LAT_DECIMAL)
        iLon   == col(header, H_LONG_DECIMAL)
        iName  == col(header, H_ARPT_NAME)
        iCity  == col(header, H_CITY)
        iState == col(header, H_STATE_CODE)
        iFuel  == col(header, H_FUEL_TYPES)
        idx    == {iID, iLat, iLon, iName, iCity, iState, iFuel}
        body   == Tail(rows)
    IN  IF \E r \in 1..Len(body) : \E i \in idx : ~InRange(body[r], i)
        THEN [status |-> "panic", airports |-> <<>>]
        ELSE [status   |-> "ok",
              airports |-> [r \in 1..Len(body) |->
                  MakeAirport(body[r], iID, iLat, iLon, iName, iCity, iState, iFuel)]]

\* json.MarshalIndent rejects a float64 that is not finite.
Marshalable(aps) ==
    \A i \in 1..Len(aps) : aps[i].lat.inf = 0 /\ aps[i].lon.inf = 0

\* ------------------------------------------------------------------------
\* Inputs: FUEL_TYPES strings, CSV tables, archives
\* ------------------------------------------------------------------------

\* Fragments of FUEL_TYPES values; two or three of them in a row form the
\* literals across a seam ("MOGA" + "S", "10" + "0", "je" + "T").
FuelPieces ==
    { S_MOGAS, <<"m","o","g","a","s">>, <<"M","o","G","a">>, <<"S">>, <<"s">>,
      S_100LL, <<"1","0">>, <<"0">>, <<"1","1","5">>,
      S_JET, <<"j","e">>, <<"T">>, <<"A">>, <<",">> }

RECURSIVE Concat(_)
Concat(ss) == IF ss = <<>> THEN <<>> ELSE Head(ss) \o Concat(Tail(ss))

FuelStrings ==
    { Concat(ps) : ps \in UNION { [1..k -> FuelPieces] : k \in 0..MaxPieces } }

HeaderStd ==
    << <<"E","F","F">>, H_ARPT_ID, H_ARPT_NAME, H_CITY, H_STATE_CODE,
       H_LAT_DECIMAL, H_LONG_DECIMAL, H_FUEL_TYPES >>

\* FUEL_TYPES first, ARPT_ID twice: col takes the first.
HeaderShuffled ==
    << H_FUEL_TYPES, H_LONG_DECIMAL, H_LAT_DECIMAL, H_STATE_CODE, H_CITY,
       H_ARPT_NAME, H_ARPT_ID, H_ARPT_ID >>

\* No cell spells FUEL_TYPES exactly.
HeaderNoFuel ==
    << <<"E","F","F">>, H_ARPT_ID, H_ARPT_NAME, H_CITY, H_STATE_CODE,
       H_LAT_DECIMAL, H_LONG_DECIMAL, <<"f","u","e","l">> >>

Headers == {HeaderStd, HeaderShuffled, HeaderNoFuel}

\* Rows of eight cells, and one of three (FieldsPerRecord = -1 lets rows of
\* any length through the reader).
RowChoices ==
    { << <<"x">>, <<"A","B","C">>, <<"E","x">>, <<"S","w">>, <<"X","X">>,
         F_39_5, F_m98_3, <<"1","0","0","L","L",",","M","O","G","A","S">> >>,
      << <<"x">>, <<" ","0","0","C"," ">>, <<"N","o">>, <<>>, <<"X","X">>,
         <<>>, F_NA, <<>> >>,
      << <<"j","e","t">>, <<"Z","Z">>, <<"I","n">>, <<"F","a","r">>, <<"Y","Y">>,
         F_1e999, F_sp39_5, <<"J","e","t"," ","A">> >>,
      << S_MOGAS, F_0, F_0, F_0, F_0, F_0, F_0, F_0 >>,
      << <<"x">>, <<"S","H","O","R","T">>, <<"C","u","t">> >> }

CsvOf(h, rs) == [readErr |-> FALSE, rows |-> <<h>> \o rs]

\* What parseAirports may be handed: no file, an unreadable CSV, an empty
\* one, and every header with at most MaxRows rows.
CsvFiles ==
    { <<>>, <<[readErr |-> TRUE, rows |-> <<>>]>>, <<[readErr |-> FALSE, rows |-> <<>>]>> }
    \cup { <<CsvOf(h, rs)>> :
             h \in Headers, rs \in UNION { [1..k -> RowChoices] : k \in 0..MaxRows } }

N_APT_BASE == <<"A","P","T","_","B","A","S","E",".","c","s","v">>
N_apt_base == <<"a","p","t","_","b","a","s","e",".","C","S","V">>
N_APT_RWY == <<"A","P","T","_","R","W","Y",".","c","s","v">>

RowFull == CHOOSE r \in RowChoices : Len(r) = 8 /\ r[2] = <<"A","B","C">>
RowBlank == CHOOSE r \in RowChoices : Len(r) = 8 /\ r[6] = <<>>
RowInf == CHOOSE r \in RowChoices : Len(r) = 8 /\ r[6] = F_1e999
RowShort == CHOOSE r \in RowChoices : Len(r) = 3

\* A member of an archive: its name, what reading it does ("ok", "openErr"
\* when f.Open fails, "copyErr" when io.Copy fails part way) and its data.
Member(n, st, d) == [name |-> n, status |-> st, data |-> d]

\* What the server may send with status 200: a page that is no ZIP, and
\* archives with and without a member named APT_BASE.csv in some case.
Bodies ==
    { [zip |-> FALSE, members |-> <<>>],
      [zip |-> TRUE, members |-> <<>>],
      [zip |-> TRUE, members |->
          <<Member(N_APT_RWY, "ok", CsvOf(HeaderStd, <<RowFull>>))>>],
      [zip |-> TRUE, members |->
          <<Member(N_APT_RWY, "ok", CsvOf(HeaderStd, <<>>)),
            Member(N_APT_BASE, "ok", CsvOf(HeaderStd, <<RowFull, RowBlank>>))>>],
      [zip |-> TRUE, members |->
          <<Member(N_apt_base, "ok", CsvOf(HeaderShuffled, <<RowBlank>>)),
            Member(N_APT_BASE, "ok", CsvOf(HeaderStd, <<RowFull>>))>>],
      [zip |-> TRUE, members |->
          <<Member(N_APT_BASE, "ok", CsvOf(HeaderStd, <<RowFull, RowShort>>))>>],
      [zip |-> TRUE, members |->
          <<Member(N_APT_BASE, "ok", CsvOf(HeaderStd, <<RowInf>>))>>],
      [zip |-> TRUE, members |->
          <<Member(N_APT_BASE, "ok", [readErr |-> TRUE, rows |-> <<>>])>>],
      [zip |-> TRUE, members |->
          <<Member(N_APT_BASE, "openErr", CsvOf(HeaderStd, <<RowFull>>))>>],
      [zip |-> TRUE, members |->
          <<Member(N_APT_BASE, "copyErr", CsvOf(HeaderStd, <<RowFull>>))>>] }

\* The clock readings main is run at: on a cycle boundary, an hour either
\* side of one, mid-cycle, before and after the anchor.
NowSamples == {-1344, -700, -672, -1, 0, 1, 671, 672, 2000}

NowRange ==
    (-(MaxCycles * cycleLengthDays * HoursPerDay))
        .. (MaxCycles * cycleLengthDays * HoursPerDay)

\* ------------------------------------------------------------------------
\* Download and ZIP validation
\* ------------------------------------------------------------------------

\* How one call of download ends: "http" (http.Get failed or the status is
\* not 200), "create" (os.Create failed), "copy" (io.Copy failed part way)
\* or "nil" (the body is on disk).
DownloadErrs == {"http", "create", "copy", "nil"}

\* The file at path after download: untouched when nothing was created,
\* a truncated body that is no ZIP when the copy broke, else the body.
download(file, err, body) ==
    CASE err \in {"http", "create"} -> file
      [] err = "copy" -> <<[zip |-> FALSE, members |-> <<>>]>>
      [] OTHER -> <<body>>

\* The mutant: every file that exists passes.
isZipValid_exists(file) == file # <<>>

\* isZipValid: zip.OpenReader succeeds
isZipValid(file) == file # <<>> /\ file[1].zip

\* ------------------------------------------------------------------------
\* ZIP extraction
\* ------------------------------------------------------------------------

\* The index of the first member whose name equals APT_BASE.csv under
\* strings.EqualFold, 0 when there is none.
FindCSV(members) ==
    IF \E i \in 1..Len(members) : EqualFold(members[i].name, N_APT_BASE)
    THEN CHOOSE i \in 1..Len(members) :
            /\ EqualFold(members[i].name, N_APT_BASE)
            /\ \A j \in 1..(i - 1) : ~EqualFold(members[j].name, N_APT_BASE)
    ELSE 0

\* The prefixes of a CSV that a broken copy may leave on disk.
Truncations(d) ==
    { [readErr |-> d.readErr, rows |-> SubSeq(d.rows, 1, k)] : k \in 0..Len(d.rows) }

\* extractCSV(zipPath): the set of [err, csv] it can end with, csv being the
\* file APT_BASE.csv afterwards, given the file there before.
\* createFails is whether os.Create fails.
extractCSV(file, before, createFails) ==
    IF ~isZipValid(file) THEN {[err |-> "open zip", csv |-> before]}
    ELSE
    LET ms == file[1].members
        i  == FindCSV(ms)
    IN  IF i = 0 THEN {[err |-> "not found", csv |-> before]}
        ELSE IF ms[i].status = "openErr" THEN {[err |-> "open member", csv |-> before]}
        ELSE IF createFails THEN {[err |-> "create", csv |-> before]}
        ELSE IF ms[i].status = "copyErr"
             THEN {[err |-> "copy", csv |-> <<t>>] : t \in Truncations(ms[i].data)}
        ELSE {[err |-> "nil", csv |-> <<ms[i].data>>]}

\* ------------------------------------------------------------------------
\* main and runPipeline
\* ------------------------------------------------------------------------

NoResult == [status |-> "none", airports |-> <<>>]

CallIdle == arg = 0 /\ ret = <<>>

\* The page is not part of a run of fetch.
UIIdle ==
    /\ loaded = FALSE /\ geoPending = FALSE
    /\ airports = <<>> /\ filtered = <<>> /\ markers = <<>>
    /\ center = [lat |-> 0, lon |-> 0] /\ radiusMiles = 0
    /\ radiusCircle = <<>> /\ centerMarker = <<>>
    /\ listPage = 0 /\ searchMode = "view" /\ isLoadingMore = FALSE
    /\ loadMoreObserver = "null" /\ activeFuels = {} /\ showCircle = FALSE
    /\ list = <<>> /\ btnDisabled = FALSE
    /\ mapBounds = [south |-> 0, north |-> 0]
    /\ rafQueue = 0 /\ rendered = FALSE /\ lastEvent = "none"
    /\ sinceAccept = [page |-> 0, shown |-> 0, filterEvent |-> FALSE,
                      render |-> FALSE, triggers |-> 0]

\* A log entry for a call of download that isZipValid has not judged.
Attempt(url, err) == [url |-> url, err |-> err, valid |-> "unchecked"]

\* The log with isZipValid's verdict on the latest download.
Judged(log, ok) ==
    [log EXCEPT ![Len(log)].valid = IF ok THEN "yes" ELSE "no"]

\* A run starts with whatever cycle.zip an earlier run left behind.
Init ==
    /\ pc = "start"
    /\ now \in NowSamples
    /\ nextCycle = 0
    /\ attempts = <<>>
    /\ zipFile \in {<<>>} \cup {<<b>> : b \in {x \in Bodies : x.members = <<>>}}
    /\ csvFile = <<>>
    /\ parsed = NoResult
    /\ jsonFile = <<>>
    /\ CallIdle
    /\ UIIdle

\* main, line 51: nextCycle := computeNextCycle()
ComputeCycle ==
    /\ pc = "start"
    /\ nextCycle' = computeNextCycle(now)
    /\ pc' = "downloadNext"
    /\ UNCHANGED <<now, attempts, zipFile, csvFile, parsed, jsonFile, callVars, uiVars>>

\* main, line 57: err := download(nextURL, "cycle.zip"); an error skips
\* isZipValid (||) and falls back.
DownloadNext ==
    /\ pc = "downloadNext"
    /\ \E err \in DownloadErrs, body \in Bodies :
        /\ attempts' = Append(attempts, Attempt(formatZipURL(nextCycle), err))
        /\ zipFile' = download(zipFile, err, body)
        /\ pc' = IF err # "nil" THEN "fallback" ELSE "validateNext"
    /\ UNCHANGED <<now, nextCycle, csvFile, parsed, jsonFile, callVars, uiVars>>

\* main, line 58: !isZipValid("cycle.zip")
ValidateNext ==
    /\ pc = "validateNext"
    /\ pc' = IF isZipValid(zipFile) THEN "extract" ELSE "fallback"
    /\ attempts' = Judged(attempts, isZipValid(zipFile))
    /\ UNCHANGED <<now, nextCycle, zipFile, csvFile, parsed, jsonFile, callVars, uiVars>>

\* The mutant: the fallback goes two cycles back.
currentCycleOf_twoBack(next) == next - 2 * cycleLengthDays * HoursPerDay

\* main, line 63: currentCycle := nextCycle.Add(-cycleLengthDays * 24 * time.Hour)
currentCycleOf(next) == next - cycleLengthDays * HoursPerDay

\* main, lines 61-71: os.Remove("cycle.zip"), then the download of the
\* current cycle; its error panics.
Fallback ==
    /\ pc = "fallback"
    /\ \E err \in DownloadErrs, body \in Bodies :
        /\ attempts' = Append(attempts,
                              Attempt(formatZipURL(currentCycleOf(nextCycle)), err))
        /\ zipFile' = download(<<>>, err, body)
        /\ pc' = IF err # "nil" THEN "panic" ELSE "validateCurrent"
    /\ UNCHANGED <<now, nextCycle, csvFile, parsed, jsonFile, callVars, uiVars>>

\* main, lines 73-75
ValidateCurrent ==
    /\ pc = "validateCurrent"
    /\ pc' = IF isZipValid(zipFile) THEN "extract" ELSE "panic"
    /\ attempts' = Judged(attempts, isZipValid(zipFile))
    /\ UNCHANGED <<now, nextCycle, zipFile, csvFile, parsed, jsonFile, callVars, uiVars>>

\* runPipeline, lines 145-149: an error of extractCSV panics before the
\* removal of the CSV is deferred, so what was created stays.
Extract ==
    /\ pc = "extract"
    /\ \E createFails \in BOOLEAN :
       \E r \in extractCSV(zipFile, csvFile, createFails) :
        /\ csvFile' = r.csv
        /\ pc' = IF r.err = "nil" THEN "parse" ELSE "panic"
    /\ UNCHANGED <<now, nextCycle, attempts, zipFile, parsed, jsonFile, callVars, uiVars>>

\* runPipeline, lines 153-156: a failed parse panics and the deferred
\* os.Remove(csvPath) runs.
Parse ==
    /\ pc = "parse"
    /\ parsed' = parseAirports(csvFile)
    /\ IF parsed'.status = "ok"
       THEN pc' = "emit" /\ csvFile' = csvFile
       ELSE pc' = "panic" /\ csvFile' = <<>>
    /\ UNCHANGED <<now, nextCycle, attempts, zipFile, jsonFile, callVars, uiVars>>

\* writeJSON: the file afterwards and whether it failed.  A failed
\* os.WriteFile may leave the file untouched or empty.
writeJSON(file, v, writeFails) ==
    IF ~Marshalable(v) THEN {[err |-> "marshal", file |-> file]}
    ELSE IF writeFails THEN {[err |-> "write", file |-> f] : f \in {file, << <<>> >>}}
    ELSE {[err |-> "nil", file |-> <<v>>]}

\* runPipeline, lines 158-166, and the deferred os.Remove(csvPath)
Emit ==
    /\ pc = "emit"
    /\ \E writeFails \in BOOLEAN :
       \E r \in writeJSON(jsonFile, parsed.airports, writeFails) :
        /\ jsonFile' = r.file
        /\ pc' = IF r.err = "nil" THEN "done" ELSE "panic"
    /\ csvFile' = <<>>
    /\ UNCHANGED <<now, nextCycle, attempts, zipFile, parsed, callVars, uiVars>>

Next ==
    \/ ComputeCycle
    \/ DownloadNext
    \/ ValidateNext
    \/ Fallback
    \/ ValidateCurrent
    \/ Extract
    \/ Parse
    \/ Emit

Spec == Init /\ [][Next]_vars

\* ------------------------------------------------------------------------
\* Single calls of computeNextCycle, parseFuel and parseAirports
\* ------------------------------------------------------------------------

FetchIdle ==
    /\ pc = "idle"
    /\ now = 0
    /\ nextCycle = 0
    /\ attempts = <<>>
    /\ zipFile = <<>>
    /\ csvFile = <<>>
    /\ parsed = NoResult
    /\ jsonFile = <<>>

\* computeNextCycle at every whole hour of NowRange
CycleInit == FetchIdle /\ UIIdle /\ ret = <<>> /\ arg \in NowRange

CallComputeNextCycle ==
    /\ ret = <<>>
    /\ ret' = <<computeNextCycle(arg)>>
    /\ UNCHANGED <<arg, fetchVars, uiVars>>

SpecCycle == CycleInit /\ [][CallComputeNextCycle]_vars

\* parseFuel on every string of FuelStrings
FuelInit == FetchIdle /\ UIIdle /\ ret = <<>> /\ arg \in FuelStrings

CallParseFuel ==
    /\ ret = <<>>
    /\ ret' = <<parseFuel(arg)>>
    /\ UNCHANGED <<arg, fetchVars, uiVars>>

SpecFuel == FuelInit /\ [][CallParseFuel]_vars

\* parseAirports on every file of CsvFiles
ParseInit == FetchIdle /\ UIIdle /\ ret = <<>> /\ arg \in CsvFiles

CallParseAirports ==
    /\ ret = <<>>
    /\ ret' = <<parseAirports(arg)>>
    /\ UNCHANGED <<arg, fetchVars, uiVars>>

SpecParse == ParseInit /\ [][CallParseAirports]_vars

\* ------------------------------------------------------------------------
\* Properties of fetch.go
\* ------------------------------------------------------------------------

HoursPerCycle == 28 * 24

Failed(a) == a.err # "nil" \/ a.valid = "no"

\* C1: a run makes at most two download attempts.  The first asks for the
\* next cycle; there is a second exactly when the first returned an error
\* or its file was no valid ZIP, and it asks for the cycle 28 days before
\* the next one; when the second fails too the run has aborted.
C1_AtMostOneFallback ==
    /\ Len(attempts) <= 2
    /\ Len(attempts) >= 1 => attempts[1].url = formatZipURL(nextCycle)
    /\ Len(attempts) = 2 =>
          /\ Failed(attempts[1])
          /\ attempts[2].url = formatZipURL(nextCycle - HoursPerCycle)
          /\ Failed(attempts[2]) => pc = "panic"
    /\ (Len(attempts) = 1 /\ Failed(attempts[1])) => pc = "fallback"
    /\ pc = "fallback" => Len(attempts) = 1

\* A run that fell back after a 200 answer that was no ZIP, and finished.
C1_Witness ==
    /\ pc = "done"
    /\ Len(attempts) = 2
    /\ attempts[1].err = "nil"
    /\ attempts[1].valid = "no"

\* The member extractCSV takes from the archive on disk, as <<member>>.
CsvMemberOnDisk ==
    IF zipFile = <<>> THEN <<>>
    ELSE LET hits == { i \in 1..Len(zipFile[1].members) :
                         ToUpper(zipFile[1].members[i].name) = ToUpper(N_APT_BASE) }
         IN  IF hits = {} THEN <<>>
             ELSE <<zipFile[1].members[CHOOSE i \in hits : \A j \in hits : i <= j]>>

\* C2: the steps run in the order download, validate, extract, parse, emit,
\* each only after the one before succeeded: extraction is reached only
\* with a download that returned no error and passed validation, parsing
\* only with APT_BASE.csv extracted whole from that archive, emission only
\* with that CSV parsed without error, and public/airports.json holds
\* something only after all of them, namely the parsed records.
C2_StepsInOrder ==
    /\ pc \in {"extract", "parse", "emit", "done"} =>
          /\ attempts # <<>>
          /\ attempts[Len(attempts)].err = "nil"
          /\ attempts[Len(attempts)].valid = "yes"
          /\ zipFile # <<>> /\ zipFile[1].zip
    /\ pc \in {"parse", "emit", "done"} =>
          /\ CsvMemberOnDisk # <<>>
          /\ CsvMemberOnDisk[1].status = "ok"
          /\ pc # "done" => csvFile = <<CsvMemberOnDisk[1].data>>
    /\ pc \in {"emit", "done"} =>
          /\ parsed.status = "ok"
          /\ parsed = parseAirports(<<CsvMemberOnDisk[1].data>>)
    /\ jsonFile # <<>> =>
          /\ pc \in {"done", "panic"}
          /\ parsed.status = "ok"
          /\ attempts[Len(attempts)].valid = "yes"
          /\ CsvMemberOnDisk # <<>> /\ CsvMemberOnDisk[1].status = "ok"
          /\ pc = "done" => jsonFile = <<parsed.airports>>

\* A finished run that wrote two airports.
C2_Witness ==
    /\ pc = "done"
    /\ jsonFile # <<>>
    /\ Len(jsonFile[1]) = 2

\* C3: computeNextCycle returns anchor + 28*n days, the earliest such date
\* strictly later than the current time, hence at most 28 days ahead.
C3_EarliestLaterCycle ==
    ret # <<>> =>
        /\ ret[1] % HoursPerCycle = 0
        /\ ret[1] > arg
        /\ ret[1] - arg <= HoursPerCycle

\* Whether two runes are one letter in either case, or the same rune.
SameLetter(a, b) ==
    \/ a = b
    \/ \E i \in 1..26 : {a, b} = {LowerLetters[i], UpperLetters[i]}

\* Whether lit occurs in s when case is ignored.
OccursIgnoringCase(s, lit) ==
    \E i \in 1..(Len(s) - Len(lit) + 1) :
        \A k \in 1..Len(lit) : SameLetter(s[i + k - 1], lit[k])

\* C4: parseFuel returns a map with exactly the keys mogas, 100ll, jet_a;
\* mogas is true iff the string contains MOGAS, 100ll iff it contains 100,
\* jet_a iff it contains JET, whatever the case of the letters and
\* whatever the other two flags are.
C4_FuelFlags ==
    ret # <<>> =>
        /\ DOMAIN ret[1] = {"mogas", "100ll", "jet_a"}
        /\ ret[1]["mogas"] = OccursIgnoringCase(arg, S_MOGAS)
        /\ ret[1]["100ll"] = OccursIgnoringCase(arg, S_100)
        /\ ret[1]["jet_a"] = OccursIgnoringCase(arg, S_JET)
        /\ arg = <<>> => \A k \in DOMAIN ret[1] : ~ret[1][k]

\* A string with lower-case letters that yields mogas and jet_a, not 100ll.
C4_Witness ==
    /\ ret # <<>>
    /\ arg # ToUpper(arg)
    /\ ret[1]["mogas"] /\ ret[1]["jet_a"] /\ ~ret[1]["100ll"]

\* The cell of a row under the first header cell spelling name, as <<cell>>.
CellUnder(header, row, name) ==
    LET at == { i \in 1..Len(header) : header[i] = name }
        i  == CHOOSE i \in at : \A j \in at : i <= j
    IN  IF at = {} \/ i > Len(row) THEN <<>> ELSE <<row[i]>>

\* The CSV files with a header naming all seven columns and a row after it.
HasColumns(file) ==
    /\ file # <<>>
    /\ ~file[1].readErr
    /\ Len(file[1].rows) >= 2
    /\ \A n \in {H_ARPT_ID, H_LAT_DECIMAL, H_LONG_DECIMAL, H_ARPT_NAME,
                 H_CITY, H_STATE_CODE, H_FUEL_TYPES} :
          \E i \in 1..Len(file[1].rows[1]) : file[1].rows[1][i] = n

\* C5: parseAirports creates exactly one record for each row after the
\* header, in file order, whatever the row holds; a latitude or longitude
\* that does not parse becomes 0; icao is K followed by the trimmed ARPT_ID.
C5_OneRecordPerRow ==
    (ret # <<>> /\ HasColumns(arg)) =>
        LET rows == arg[1].rows
            out  == ret[1].airports
        IN  /\ ret[1].status = "ok"
            /\ Len(out) = Len(rows) - 1
            /\ \A r \in 1..Len(out) :
                  LET id  == CellUnder(rows[1], rows[r + 1], H_ARPT_ID)[1]
                      lat == CellUnder(rows[1], rows[r + 1], H_LAT_DECIMAL)[1]
                      lon == CellUnder(rows[1], rows[r + 1], H_LONG_DECIMAL)[1]
                  IN  /\ out[r].icao = <<"K">> \o TrimSpace(id)
                      /\ ParseFloat(lat).err # "nil" => out[r].lat = Finite(0)
                      /\ ParseFloat(lon).err # "nil" => out[r].lon = Finite(0)

\* ------------------------------------------------------------------------
\* public/js/main.js: data and inputs
\* ------------------------------------------------------------------------
\* Latitudes and longitudes are in tenths of a degree, distances in
\* thousandths of a mile.  Every airport and every centre lies on the
\* meridian of the default centre, where the haversine distance is
\* R * pi/180 * |difference of latitudes|.  Updates of text and of CSS
\* classes (#resultCount, #radius-display, the mode buttons) are left out.

MAX_PINS == 2000

PAGE_SIZE == 80

\* The number of airports in airports.json.
NumAirports == 100

\* Triggers ignored while a frame is pending are counted up to this many.
MaxTriggers == 2

DefaultLat == 395

DefaultLon == -983

DefaultRadius == 200

\* Airport i lies 0.1 degree north of airport i - 1, airport 50 at the
\* default centre.  80 airports sell mogas (exactly one page), 81 sell
\* 100LL, those from the 90th on sell jet fuel, and three sell nothing.
AirportAt(i) ==
    [arpt_id |-> i,
     lat |-> 345 + i,
     lon |-> DefaultLon,
     fuel |-> [k \in FuelKeys |->
                 CASE k = "mogas" -> i <= 80
                   [] k = "100ll" -> 6 <= i /\ i <= 86
                   [] k = "jet_a" -> 90 <= i]]

AirportsJson == [i \in 1..NumAirports |-> AirportAt(i)] \o <<>>

FuelButtons == {"mogas", "100ll", "jet"}

Modes == {"view", "radius", "all"}

\* Where the user clicks the map or is located.
ClickLats == {DefaultLat, 360}


\* The values the radius slider is moved to.
SliderValues == {DefaultRadius, 400}

\* The views the map settles in: all airports visible, or those from
\* 35.0 to 43.0 degrees.
BoundsChoices ==
    { [south |-> 250, north |-> 500], [south |-> 350, north |-> 430] }

\* ------------------------------------------------------------------------
\* Filtering and sorting
\* ------------------------------------------------------------------------

\* getSelectedFuels: the keys of the active buttons, in the order pushed
getSelectedFuels(active) ==
    (IF "mogas" \in active THEN <<"mogas">> ELSE <<>>)
    \o (IF "100ll" \in active THEN <<"100ll">> ELSE <<>>)
    \o (IF "jet" \in active THEN <<"jet_a">> ELSE <<>>)

\* 1000 * R * pi / 180 / 10 with R = 3958.8 miles, rounded down
MilliMilesPerTenth == 6909

Abs(x) == IF x < 0 THEN -x ELSE x

\* haversine(a, b) for two points of one meridian
haversine(a, b) == MilliMilesPerTenth * Abs(b.lat - a.lat)

\* inBounds: map.getBounds().contains([ap.lat, ap.lon])
inBounds(ap, b) == b.south <= ap.lat /\ ap.lat <= b.north

\* The mutant: an airport must offer every selected fuel.
filterAirports_and(aps, active, mode, c, r, b) ==
    LET fuels == getSelectedFuels(active) IN
    IF Len(fuels) = 0 THEN <<>>
    ELSE
    LET result == SelectSeq(aps, LAMBDA ap : \A i \in 1..Len(fuels) : ap.fuel[fuels[i]])
    IN  CASE mode = "all" -> result
          [] mode = "radius" ->
                SelectSeq(result, LAMBDA ap : haversine(c, ap) <= r * 1000)
          [] OTHER -> SelectSeq(result, LAMBDA ap : inBounds(ap, b))

\* filterAirports
filterAirports(aps, active, mode, c, r, b) ==
    LET fuels == getSelectedFuels(active) IN
    IF Len(fuels) = 0 THEN <<>>
    ELSE
    LET result == SelectSeq(aps, LAMBDA ap : \E i \in 1..Len(fuels) : ap.fuel[fuels[i]])
    IN  CASE mode = "all" -> result
          [] mode = "radius" ->
                SelectSeq(result, LAMBDA ap : haversine(c, ap) <= r * 1000)
          [] OTHER -> SelectSeq(result, LAMBDA ap : inBounds(ap, b))

\* ({ ...ap, dist: haversine(center, ap) })
WithDist(ap, c) ==
    [arpt_id |-> ap.arpt_id, lat |-> ap.lat, lon |-> ap.lon, fuel |-> ap.fuel,
     dist |-> haversine(c, ap)]

\* The mutant: the array is left in the order of the file.
SortByDist_unsorted(s) == s

\* Array.prototype.sort((a, b) => a.dist - b.dist), which is stable: an
\* entry's place is one more than the number of entries that are nearer,
\* or as near and ahead of it in s.
SortByDist(s) ==
    LET place == [i \in 1..Len(s) |->
                    1 + Cardinality({ j \in 1..Len(s) :
                                        \/ s[j].dist < s[i].dist
                                        \/ (s[j].dist = s[i].dist /\ j < i) })] \o <<>>
    IN  [k \in 1..Len(s) |-> s[CHOOSE i \in 1..Len(s) : place[i] = k]] \o <<>>

\* render, lines 272-277: the new value of filtered
ComputeFiltered(aps, active, mode, c, r, b) ==
    LET f == filterAirports(aps, active, mode, c, r, b)
    IN  SortByDist([i \in 1..Len(f) |-> WithDist(f[i], c)] \o <<>>)

IndexIn(q, x) == CHOOSE n \in 1..Len(q) : q[n] = x

FuelSetSeq ==
    << {}, {"mogas"}, {"100ll"}, {"jet"}, {"mogas", "100ll"}, {"mogas", "jet"},
       {"100ll", "jet"}, {"mogas", "100ll", "jet"} >>

ModeSeq == <<"view", "radius", "all">>

LatSeq == <<DefaultLat, 360>>

SliderSeq == <<DefaultRadius, 400>>

BoundsSeq == << [south |-> 250, north |-> 500], [south |-> 350, north |-> 430] >>

\* ComputeFiltered on the loaded data, computed once for every setting of
\* the controls: FilteredTable[fuels][mode][centre][radius][view].
FilteredTable ==
    [a \in 1..Len(FuelSetSeq) |->
      [m \in 1..Len(ModeSeq) |->
        [l \in 1..Len(LatSeq) |->
          [r \in 1..Len(SliderSeq) |->
            [b \in 1..Len(BoundsSeq) |->
                ComputeFiltered(AirportsJson, FuelSetSeq[a], ModeSeq[m],
                                [lat |-> LatSeq[l], lon |-> DefaultLon],
                                SliderSeq[r], BoundsSeq[b])
            ] \o <<>> ] \o <<>> ] \o <<>> ] \o <<>> ] \o <<>>

\* The number of further airports of the large file.
NumFar == 1989

\* The large file's further airports sell jet fuel only and lie north of
\* the airports of AirportsJson, 55 places 0.1 degree apart.
FarAirport(i) ==
    [arpt_id |-> NumAirports + i,
     lat |-> 446 + ((i - 1) % 55),
     lon |-> DefaultLon,
     fuel |-> [k \in FuelKeys |-> k = "jet_a"]]

\* An airports.json with more than MAX_PINS airports.
AirportsBig == (AirportsJson \o [i \in 1..NumFar |-> FarAirport(i)]) \o <<>>

\* ComputeFiltered on the large file in view mode around the default
\* centre, computed once: FilteredBigTable[fuels][view].
FilteredBigTable ==
    [a \in 1..Len(FuelSetSeq) |->
      [b \in 1..Len(BoundsSeq) |->
          ComputeFiltered(AirportsBig, FuelSetSeq[a], "view",
                          [lat |-> DefaultLat, lon |-> DefaultLon],
                          DefaultRadius, BoundsSeq[b])
      ] \o <<>> ] \o <<>>

\* render, lines 272-277, by way of the tables where they apply
NewFiltered(aps, active, mode, c, r, b) ==
    IF /\ aps = AirportsBig
       /\ mode = "view"
       /\ c = [lat |-> DefaultLat, lon |-> DefaultLon]
       /\ \E n \in 1..Len(BoundsSeq) : BoundsSeq[n] = b
    THEN FilteredBigTable[IndexIn(FuelSetSeq, active)][IndexIn(BoundsSeq, b)]
    ELSE
    IF /\ aps = AirportsJson
       /\ c.lon = DefaultLon
       /\ \E n \in 1..Len(LatSeq) : LatSeq[n] = c.lat
       /\ \E n \in 1..Len(SliderSeq) : SliderSeq[n] = r
       /\ \E n \in 1..Len(BoundsSeq) : BoundsSeq[n] = b
    THEN FilteredTable[IndexIn(FuelSetSeq, active)][IndexIn(ModeSeq, mode)]
                      [IndexIn(LatSeq, c.lat)][IndexIn(SliderSeq, r)][IndexIn(BoundsSeq, b)]
    ELSE ComputeFiltered(aps, active, mode, c, r, b)

\* ------------------------------------------------------------------------
\* Rendering
\* ------------------------------------------------------------------------

Min(a, b) == IF a < b THEN a ELSE b

\* The mutant: a page counts as "more" when it would be empty.
hasMore_orEqual(page, filt) == (page + 1) * PAGE_SIZE <= Len(filt)

\* hasMore, as attemptLoadMore, the observer callback and
\* updateLoadMoreState compute it
hasMore(page, filt) == (page + 1) * PAGE_SIZE < Len(filt)

\* The element renderList builds for one entry.
ListItem(ap) == [arpt_id |-> ap.arpt_id, dist |-> ap.dist]

\* The mutant: the chunk starts one entry early.
Chunk_overlap(page, filt) ==
    LET start == IF page = 0 THEN 0 ELSE page * PAGE_SIZE - 1
        end   == Min(page * PAGE_SIZE + PAGE_SIZE, Len(filt))
    IN  [i \in 1..(IF end > start THEN end - start ELSE 0) |-> ListItem(filt[start + i])]

\* renderList, lines 365-368: filtered.slice(start, end) as list elements
Chunk(page, filt) ==
    LET start == page * PAGE_SIZE
        end   == Min(start + PAGE_SIZE, Len(filt))
    IN  [i \in 1..(IF end > start THEN end - start ELSE 0) |-> ListItem(filt[start + i])]

\* The mutant: a marker for every entry, however many.
Pins_uncapped(filt) ==
    [i \in 1..Len(filt) |->
        [arpt_id |-> filt[i].arpt_id, lat |-> filt[i].lat, lon |-> filt[i].lon]]

\* renderPins: one marker per airport handed over
Pins(filt) ==
    [i \in 1..Min(Len(filt), MAX_PINS) |->
        [arpt_id |-> filt[i].arpt_id, lat |-> filt[i].lat, lon |-> filt[i].lon]]

\* renderRadiusCircle: the circle (and the centre marker) or null
Circle(mode, sc, c, r) ==
    IF mode = "radius" \/ (mode # "all" /\ sc)
    THEN <<[lat |-> c.lat, lon |-> c.lon, radius |-> r]>>
    ELSE <<>>

\* updateLoadMoreState: the observer afterwards.  Without more items the
\* button is unobserved; with more, a missing observer is set up and the
\* button observed.
ObserverAfter(obs, more) ==
    IF ~more THEN (IF obs = "null" THEN "null" ELSE "unobserved")
    ELSE "observing"

\* The history while no frame has been scheduled.
NoHistory ==
    [page |-> 0, shown |-> 0, filterEvent |-> FALSE, render |-> FALSE, triggers |-> 0]

\* updateLoadMoreState, reading the page, the filtered array and the
\* observer the handler has at the call
UpdateLoadMoreState(page, filt, obs) ==
    /\ btnDisabled' = ~hasMore(page, filt)
    /\ loadMoreObserver' = ObserverAfter(obs, hasMore(page, filt))

\* render(): filter, sort, renderPins, renderRadiusCircle, renderList(true),
\* updateLoadMoreState.  The parameters are the handler's values of the data
\* and the controls at the call; change says whether the handler is one
\* that changes the filters.
Render(aps, active, mode, c, r, b, sc, obs, change) ==
    LET f == NewFiltered(aps, active, mode, c, r, b)
    IN  /\ filtered' = f
        /\ markers' = Pins(f)
        /\ radiusCircle' = Circle(mode, sc, c, r)
        /\ centerMarker' = Circle(mode, sc, c, r)
        /\ listPage' = 0
        /\ list' = Chunk(0, f)
        /\ UpdateLoadMoreState(0, f, obs)
        /\ rendered' = TRUE
        /\ sinceAccept' =
              IF isLoadingMore
              THEN [sinceAccept EXCEPT !.render = TRUE,
                                       !.filterEvent = sinceAccept.filterEvent \/ change]
              ELSE NoHistory

\* What render() assigns.
renderVars ==
    <<filtered, markers, radiusCircle, centerMarker, listPage, list,
      btnDisabled, loadMoreObserver, rendered, sinceAccept>>

\* ------------------------------------------------------------------------
\* The page: init() and the handlers it and initUI register
\* ------------------------------------------------------------------------

\* The page after the synchronous part of init(): the map is set up, the
\* position and the data are awaited.  Which fuel buttons start active,
\* whether #showCircle starts checked and #loadMoreBtn disabled is up to
\* index.html.
UIInit ==
    /\ FetchIdle /\ CallIdle
    /\ loaded = FALSE /\ geoPending = TRUE
    /\ airports = <<>> /\ filtered = <<>> /\ markers = <<>>
    /\ center = [lat |-> DefaultLat, lon |-> DefaultLon]
    /\ radiusMiles = DefaultRadius
    /\ radiusCircle = <<>> /\ centerMarker = <<>>
    /\ listPage = 0 /\ searchMode = "view" /\ isLoadingMore = FALSE
    /\ loadMoreObserver = "null"
    /\ activeFuels \in SUBSET FuelButtons
    /\ showCircle \in BOOLEAN
    /\ list = <<>>
    /\ btnDisabled \in BOOLEAN
    /\ mapBounds \in BoundsChoices
    /\ rafQueue = 0
    /\ rendered = FALSE /\ lastEvent = "none" /\ sinceAccept = NoHistory

\* map.on("click"): the centre moves; in view mode the mode becomes radius
\* and zoomToRadius moves the view.
MapClick ==
    /\ \E lat \in ClickLats, b \in BoundsChoices :
        LET c    == [lat |-> lat, lon |-> DefaultLon]
            mode == IF searchMode = "view" THEN "radius" ELSE searchMode
            bnds == IF searchMode = "view" THEN b ELSE mapBounds
        IN  /\ center' = c
            /\ searchMode' = mode
            /\ mapBounds' = bnds
            /\ Render(airports, activeFuels, mode, c, radiusMiles, bnds, showCircle,
                      loadMoreObserver, TRUE)
    /\ lastEvent' = "filterChange"
    /\ UNCHANGED <<loaded, geoPending, airports, radiusMiles, isLoadingMore,
                   activeFuels, showCircle, rafQueue, fetchVars, callVars>>

\* map.on("moveend zoomend"): the view has moved; only view mode renders.
MapMoved ==
    /\ \E b \in BoundsChoices :
        /\ mapBounds' = b
        /\ IF searchMode = "view"
           THEN Render(airports, activeFuels, searchMode, center, radiusMiles, b,
                       showCircle, loadMoreObserver, FALSE)
           ELSE UNCHANGED renderVars
    /\ lastEvent' = IF searchMode = "view" THEN "render" ELSE lastEvent
    /\ UNCHANGED <<loaded, geoPending, airports, center, radiusMiles, searchMode,
                   isLoadingMore, activeFuels, showCircle, rafQueue,
                   fetchVars, callVars>>

\* getCurrentPosition's success callback
GeoSuccess ==
    /\ geoPending
    /\ geoPending' = FALSE
    /\ \E lat \in ClickLats, b \in BoundsChoices :
        LET c == [lat |-> lat, lon |-> DefaultLon]
        IN  /\ center' = c
            /\ mapBounds' = b
            /\ Render(airports, activeFuels, searchMode, c, radiusMiles, b,
                      showCircle, loadMoreObserver, FALSE)
    /\ lastEvent' = "render"
    /\ UNCHANGED <<loaded, airports, radiusMiles, searchMode, isLoadingMore,
                   activeFuels, showCircle, rafQueue, fetchVars, callVars>>

\* getCurrentPosition's error callback: () => {}
GeoError ==
    /\ geoPending
    /\ geoPending' = FALSE
    /\ UNCHANGED <<lastEvent, loaded, airports, center, radiusMiles, searchMode, isLoadingMore,
                   activeFuels, showCircle, mapBounds, rafQueue, renderVars,
                   fetchVars, callVars>>

\* init(), lines 66-69: the data arrives; initUI registers the handlers
\* and sets up the observer; render().
LoadData ==
    /\ ~loaded
    /\ loaded' = TRUE
    /\ airports' = AirportsJson
    /\ Render(AirportsJson, activeFuels, searchMode, center, radiusMiles, mapBounds,
              showCircle, "observing", FALSE)
    /\ lastEvent' = "render"
    /\ UNCHANGED <<geoPending, center, radiusMiles, searchMode, isLoadingMore,
                   activeFuels, showCircle, mapBounds, rafQueue, fetchVars, callVars>>

\* toggleHandler of a fuel button
ToggleFuel ==
    /\ loaded
    /\ \E id \in FuelButtons :
        LET active == IF id \in activeFuels THEN activeFuels \ {id}
                      ELSE activeFuels \cup {id}
        IN  /\ activeFuels' = active
            /\ Render(airports, active, searchMode, center, radiusMiles, mapBounds,
                      showCircle, loadMoreObserver, TRUE)
    /\ lastEvent' = "filterChange"
    /\ UNCHANGED <<loaded, geoPending, airports, center, radiusMiles, searchMode,
                   isLoadingMore, showCircle, mapBounds, rafQueue, fetchVars, callVars>>

\* The slider's input handler; in radius mode zoomToRadius moves the view.
SliderInput ==
    /\ loaded
    /\ \E v \in SliderValues, b \in BoundsChoices :
        LET bnds == IF searchMode = "radius" THEN b ELSE mapBounds
        IN  /\ radiusMiles' = v
            /\ mapBounds' = bnds
            /\ Render(airports, activeFuels, searchMode, center, v, bnds,
                      showCircle, loadMoreObserver, TRUE)
    /\ lastEvent' = "filterChange"
    /\ UNCHANGED <<loaded, geoPending, airports, center, searchMode, isLoadingMore,
                   activeFuels, showCircle, rafQueue, fetchVars, callVars>>

\* The change handler of #showCircle, after the user flipped the box
ShowCircleChange ==
    /\ loaded
    /\ showCircle' = ~showCircle
    /\ Render(airports, activeFuels, searchMode, center, radiusMiles, mapBounds,
              ~showCircle, loadMoreObserver, FALSE)
    /\ lastEvent' = "render"
    /\ UNCHANGED <<loaded, geoPending, airports, center, radiusMiles, searchMode,
                   isLoadingMore, activeFuels, mapBounds, rafQueue, fetchVars, callVars>>

\* The click handlers of #viewModeBtn and #listAllBtn
ModeButton(mode) ==
    /\ loaded
    /\ searchMode' = mode
    /\ Render(airports, activeFuels, mode, center, radiusMiles, mapBounds,
              showCircle, loadMoreObserver, TRUE)
    /\ lastEvent' = "filterChange"
    /\ UNCHANGED <<loaded, geoPending, airports, center, radiusMiles, isLoadingMore,
                   activeFuels, showCircle, mapBounds, rafQueue, fetchVars, callVars>>

ViewModeClick == ModeButton("view")

ListAllClick == ModeButton("all")

\* What neither attemptLoadMore nor its frame callback assigns.
loadMoreFrame ==
    <<loaded, geoPending, airports, filtered, markers, center, radiusMiles,
      radiusCircle, centerMarker, searchMode, activeFuels, showCircle, mapBounds,
      rendered, fetchVars, callVars>>

\* The mutant: no check of isLoadingMore.
AttemptLoadMore_noGuard ==
    IF ~hasMore(listPage, filtered)
    THEN /\ UpdateLoadMoreState(listPage, filtered, loadMoreObserver)
         /\ sinceAccept' = NoHistory
         /\ UNCHANGED <<isLoadingMore, rafQueue>>
    ELSE /\ isLoadingMore' = TRUE
         /\ rafQueue' = rafQueue + 1
         /\ sinceAccept' = [NoHistory EXCEPT !.page = listPage, !.shown = Len(list)]
         /\ UNCHANGED <<btnDisabled, loadMoreObserver>>

\* attemptLoadMore(): return while loading; without more items only
\* updateLoadMoreState(); else set isLoadingMore and request a frame.
AttemptLoadMore ==
    IF isLoadingMore
    THEN /\ sinceAccept' =
               [sinceAccept EXCEPT !.triggers = Min(sinceAccept.triggers + 1, MaxTriggers)]
         /\ UNCHANGED <<isLoadingMore, rafQueue, btnDisabled, loadMoreObserver>>
    ELSE IF ~hasMore(listPage, filtered)
    THEN /\ UpdateLoadMoreState(listPage, filtered, loadMoreObserver)
         /\ sinceAccept' = NoHistory
         /\ UNCHANGED <<isLoadingMore, rafQueue>>
    ELSE /\ isLoadingMore' = TRUE
         /\ rafQueue' = rafQueue + 1
         /\ sinceAccept' = [NoHistory EXCEPT !.page = listPage, !.shown = Len(list)]
         /\ UNCHANGED <<btnDisabled, loadMoreObserver>>

\* The click handler of #loadMoreBtn
LoadMoreClick ==
    /\ loaded
    /\ AttemptLoadMore
    /\ lastEvent' = "trigger"
    /\ UNCHANGED <<listPage, list, loadMoreFrame>>

\* The IntersectionObserver callback with an intersecting entry: nothing
\* while loading, attemptLoadMore() with more items, else
\* updateLoadMoreState().
ObserverFire ==
    /\ loaded
    /\ loadMoreObserver # "null"
    /\ IF isLoadingMore
       THEN /\ sinceAccept' =
                  [sinceAccept EXCEPT !.triggers = Min(sinceAccept.triggers + 1, MaxTriggers)]
            /\ UNCHANGED <<isLoadingMore, rafQueue, btnDisabled, loadMoreObserver>>
       ELSE IF hasMore(listPage, filtered)
       THEN AttemptLoadMore
       ELSE /\ UpdateLoadMoreState(listPage, filtered, loadMoreObserver)
            /\ sinceAccept' = NoHistory
            /\ UNCHANGED <<isLoadingMore, rafQueue>>
    /\ lastEvent' = "trigger"
    /\ UNCHANGED <<listPage, list, loadMoreFrame>>

\* The callback attemptLoadMore handed to requestAnimationFrame
Frame ==
    /\ rafQueue > 0
    /\ rafQueue' = rafQueue - 1
    /\ listPage' = listPage + 1
    /\ list' = list \o Chunk(listPage + 1, filtered)
    /\ isLoadingMore' = FALSE
    /\ UpdateLoadMoreState(listPage + 1, filtered, loadMoreObserver)
    /\ lastEvent' = "frame"
    /\ UNCHANGED <<sinceAccept, loadMoreFrame>>

UINext ==
    \/ MapClick
    \/ MapMoved
    \/ GeoSuccess
    \/ GeoError
    \/ LoadData
    \/ ToggleFuel
    \/ SliderInput
    \/ ShowCircleChange
    \/ ViewModeClick
    \/ ListAllClick
    \/ LoadMoreClick
    \/ ObserverFire
    \/ Frame

SpecUI == UIInit /\ [][UINext]_vars

\* ------------------------------------------------------------------------
\* Properties of the page
\* ------------------------------------------------------------------------

\* The first n entries of the filtered array as list elements.
PrefixOf(filt, n) == [i \in 1..Min(n, Len(filt)) |-> ListItem(filt[i])]

\* C6: load-more is debounced by isLoadingMore.  At most one frame callback
\* is ever pending, and isLoadingMore is true exactly while it is.  Between
\* the accepted trigger and its callback, further triggers leave the page
\* and the list as they were at the accept; once the callback has run,
\* isLoadingMore is false, and (no render having come between) listPage is
\* exactly one more than at the accept and exactly one page, the next
\* PAGE_SIZE entries or what is left of them, has been appended.
C6_LoadMoreDebounced ==
    /\ rafQueue <= 1
    /\ isLoadingMore <=> (rafQueue = 1)
    /\ (isLoadingMore /\ ~sinceAccept.render) =>
          /\ listPage = sinceAccept.page
          /\ Len(list) = sinceAccept.shown
    /\ (lastEvent = "frame") => ~isLoadingMore
    /\ (lastEvent = "frame" /\ ~sinceAccept.render) =>
          /\ listPage = sinceAccept.page + 1
          /\ Len(list) > sinceAccept.shown
          /\ Len(list) = sinceAccept.shown
                           + Min(PAGE_SIZE, Len(filtered) - sinceAccept.shown)

\* A callback has run after triggers were ignored while it was pending.
C6_Witness ==
    /\ lastEvent = "frame"
    /\ ~sinceAccept.render
    /\ sinceAccept.triggers >= 2
    /\ listPage = sinceAccept.page + 1
    /\ ~isLoadingMore

\* C7: once anything has been rendered, #loadMoreBtn is disabled exactly
\* when (listPage + 1) * PAGE_SIZE >= filtered.length; and a trigger that
\* arrives while there are no more results changes neither listPage nor
\* the list.
C7_ButtonDisabledIffNoMore ==
    /\ [](rendered =>
            (btnDisabled <=> ((listPage + 1) * PAGE_SIZE >= Len(filtered))))
    /\ [][(lastEvent' = "trigger" /\ (listPage + 1) * PAGE_SIZE >= Len(filtered))
             => (listPage' = listPage /\ list' = list)]_vars

\* A trigger has met a result set of exactly one page: it was neither
\* accepted nor ignored for a pending callback, and the button is disabled.
C7_Witness ==
    /\ rendered
    /\ lastEvent = "trigger"
    /\ ~isLoadingMore
    /\ Len(filtered) = PAGE_SIZE
    /\ listPage = 0
    /\ btnDisabled

\* C8: after a filter-changing event listPage is 0 and the list holds page
\* 0 of the new result set, and when a frame callback has taken listPage
\* off 0, no filter-changing event came after the trigger that scheduled
\* it.
C8_FilterChangeResets ==
    /\ (lastEvent = "filterChange") =>
          /\ listPage = 0
          /\ list = PrefixOf(filtered, PAGE_SIZE)
    /\ (lastEvent = "frame" /\ listPage # 0) => ~sinceAccept.filterEvent

\* C9: the list is the first min((listPage + 1) * PAGE_SIZE,
\* filtered.length) entries of the filtered array, in order, each once.
C9_ListIsPrefix ==
    /\ list = PrefixOf(filtered, (listPage + 1) * PAGE_SIZE)
    /\ Cardinality({list[i].arpt_id : i \in 1..Len(list)}) = Len(list)

\* A callback has appended a second page to a list that a render rebuilt
\* while the callback was pending.
C9_Witness ==
    /\ lastEvent = "frame"
    /\ sinceAccept.render
    /\ listPage = 1
    /\ Len(list) > PAGE_SIZE
    /\ Len(list) = Len(filtered)

\* C10: listPage is 0 or listPage * PAGE_SIZE < filtered.length.
C10_PageInsideResults ==
    listPage = 0 \/ listPage * PAGE_SIZE < Len(filtered)

\* ------------------------------------------------------------------------
\* Single calls of filterAirports
\* ------------------------------------------------------------------------

\* The airports of AirportsJson in another order of the file.
AirportsShuffled ==
    [i \in 1..NumAirports |-> AirportAt(((i * 37) % NumAirports) + 1)] \o <<>>

\* The arrays airports.json may hold.
AirportFiles == { <<>>, AirportsJson, AirportsShuffled }

\* filterAirports for every array of AirportFiles and every setting of the
\* fuel buttons, the mode, the centre, the radius and the view.
FilterInit ==
    /\ FetchIdle /\ arg = 0 /\ ret = <<>>
    /\ loaded = TRUE /\ geoPending = FALSE
    /\ airports \in AirportFiles
    /\ filtered = <<>> /\ markers = <<>>
    /\ center \in { [lat |-> lat, lon |-> DefaultLon] : lat \in ClickLats }
    /\ radiusMiles \in SliderValues
    /\ radiusCircle = <<>> /\ centerMarker = <<>>
    /\ listPage = 0
    /\ searchMode \in Modes
    /\ isLoadingMore = FALSE
    /\ loadMoreObserver = "null"
    /\ activeFuels \in SUBSET FuelButtons
    /\ showCircle = FALSE
    /\ list = <<>>
    /\ btnDisabled = FALSE
    /\ mapBounds \in BoundsChoices
    /\ rafQueue = 0
    /\ rendered = FALSE /\ lastEvent = "none" /\ sinceAccept = NoHistory

CallFilterAirports ==
    /\ ret = <<>>
    /\ ret' = <<filterAirports(airports, activeFuels, searchMode, center,
                               radiusMiles, mapBounds)>>
    /\ UNCHANGED <<arg, fetchVars, uiVars>>

SpecFilter == FilterInit /\ [][CallFilterAirports]_vars

\* The key of ap.fuel a fuel button stands for.
FuelKeyOf(button) == IF button = "jet" THEN "jet_a" ELSE button

\* ap offers at least one of the selected fuels.
OffersSelected(ap) == \E button \in activeFuels : ap.fuel[FuelKeyOf(button)]

\* ap satisfies the predicate of the current mode.
InMode(ap) ==
    CASE searchMode = "all" -> TRUE
      [] searchMode = "radius" -> haversine(center, ap) <= radiusMiles * 1000
      [] searchMode = "view" -> inBounds(ap, mapBounds)

\* C11: with no fuel button active filterAirports returns the empty array;
\* otherwise it returns, in the order of the airports array, exactly the
\* airports that offer at least one selected fuel and satisfy the mode's
\* predicate (all: every one; radius: within radiusMiles of the centre;
\* view: inside the map's bounds); no returned airport lacks every
\* selected fuel.
C11_FilterAirports ==
    (ret # <<>>) =>
        /\ (activeFuels = {}) => (ret[1] = <<>>)
        /\ ret[1] = SelectSeq(airports,
                              LAMBDA ap : OffersSelected(ap) /\ InMode(ap))
        /\ \A k \in 1..Len(ret[1]) : OffersSelected(ret[1][k])

\* Two fuels are selected in radius mode on the shuffled file; the result
\* is a proper, non-empty part of the file, holds an airport with only the
\* first of the two fuels and one with only the second, and is not in the
\* order of the identifiers.
C11_Witness ==
    /\ ret # <<>>
    /\ airports = AirportsShuffled
    /\ activeFuels = {"mogas", "jet"}
    /\ searchMode = "radius"
    /\ Len(ret[1]) > 0
    /\ Len(ret[1]) < Len(airports)
    /\ \E k \in 1..Len(ret[1]) : ret[1][k].fuel["mogas"] /\ ~ret[1][k].fuel["jet_a"]
    /\ \E k \in 1..Len(ret[1]) : ret[1][k].fuel["jet_a"] /\ ~ret[1][k].fuel["mogas"]
    /\ \E k \in 1..(Len(ret[1]) - 1) : ret[1][k].arpt_id > ret[1][k + 1].arpt_id

\* ------------------------------------------------------------------------
\* Properties of the order of the results
\* ------------------------------------------------------------------------

\* C12: filtered is in order of non-decreasing distance, the distance of
\* every entry is its distance from the current centre (never from an
\* earlier one), and the list shows the entries in that order with those
\* distances.
C12_SortedByDistance ==
    /\ \A i \in 1..(Len(filtered) - 1) : filtered[i].dist <= filtered[i + 1].dist
    /\ \A i \in 1..Len(filtered) : filtered[i].dist = haversine(center, filtered[i])
    /\ \A i \in 1..Len(list) : list[i].dist = haversine(center, filtered[i])
    /\ \A i \in 1..(Len(list) - 1) : list[i].dist <= list[i + 1].dist

\* The centre has moved off the default and the results were rendered
\* around it: nearer airports come first whatever their place in the file,
\* two airports as far as each other are neighbours, and a second page has
\* been appended.
C12_Witness ==
    /\ rendered
    /\ center.lat # DefaultLat
    /\ Len(filtered) > PAGE_SIZE
    /\ Len(list) > PAGE_SIZE
    /\ filtered[1].dist < filtered[Len(filtered)].dist
    /\ \E i \in 1..(Len(filtered) - 1) : filtered[i].dist = filtered[i + 1].dist
    /\ \E i \in 1..(Len(filtered) - 1) : filtered[i].arpt_id > filtered[i + 1].arpt_id

\* ------------------------------------------------------------------------
\* The page on a file of more than MAX_PINS airports
\* ------------------------------------------------------------------------

\* init() with the jet button active, alone or with the mogas button; the
\* user leaves the other controls alone and the position never arrives.
PinsInit ==
    /\ UIInit
    /\ activeFuels \in { {"jet"}, {"mogas", "jet"} }
    /\ ~showCircle
    /\ btnDisabled

\* init(), lines 66-69, when airports.json is the large file
LoadBigData ==
    /\ ~loaded
    /\ loaded' = TRUE
    /\ airports' = AirportsBig
    /\ Render(AirportsBig, activeFuels, searchMode, center, radiusMiles, mapBounds,
              showCircle, "observing", FALSE)
    /\ lastEvent' = "render"
    /\ UNCHANGED <<geoPending, center, radiusMiles, searchMode, isLoadingMore,
                   activeFuels, showCircle, mapBounds, rafQueue, fetchVars, callVars>>

PinsNext ==
    \/ LoadBigData
    \/ MapMoved
    \/ LoadMoreClick
    \/ ObserverFire
    \/ Frame

SpecPins == PinsInit /\ [][PinsNext]_vars

\* C13: once anything has been rendered, the markers are exactly
\* min(filtered.length, MAX_PINS) in number and are those of the first
\* entries of the sorted filtered array, one each and in order, so none of
\* an earlier render is left; and a load-more trigger or its frame callback
\* leaves the markers as they are.
C13_PinsLimited ==
    /\ [](rendered =>
            /\ Len(markers) = Min(Len(filtered), MAX_PINS)
            /\ \A i \in 1..Len(markers) :
                  markers[i] = [arpt_id |-> filtered[i].arpt_id,
                                lat |-> filtered[i].lat,
                                lon |-> filtered[i].lon])
    /\ [][(lastEvent' \in {"trigger", "frame"}) => (markers' = markers)]_vars

\* More than MAX_PINS airports are in the results, MAX_PINS markers are on
\* the map, and a load-more callback has just appended a page.
C13_Witness ==
    /\ rendered
    /\ Len(filtered) > MAX_PINS
    /\ Len(markers) = MAX_PINS
    /\ lastEvent = "frame"
    /\ listPage >= 1
    /\ Len(list) > PAGE_SIZE

====
